---- MODULE Spec2Model ----
(***************************************************************************)
(* Model of the voting contract of src/src/lib.rs: VotingContract with its *)
(* admin list, its poll map and its poll id counter, and the operations    *)
(* add_admin, create_poll, end_poll, cast_vote and the read-only queries.  *)
(*                                                                         *)
(* The contract is a plain single-threaded object: every method call is    *)
(* one atomic step.  A step of the model is one call, its arguments drawn  *)
(* from the small sets below.  The Result a call returns is a function of  *)
(* the state it is made in and of its arguments: the operators *_result.   *)
(* A call that returns an error leaves every variable as it was.  add_ok,  *)
(* cast_ok, end_ok and create_ok record the calls that returned Ok.  The   *)
(* u64/usize counters (next_poll_id, vote_counts) cannot overflow within   *)
(* the bounds: next_poll_id <= MaxPolls + 1 and a counter is at most the   *)
(* number of addresses.                                                    *)
(***************************************************************************)
EXTENDS Integers, Sequences, FiniteSets, TLC

VARIABLES
    admins,        \* VotingContract.admins : Vec<Address>
    polls,         \* VotingContract.polls : HashMap<u64, Poll>
    next_poll_id,  \* VotingContract.next_poll_id : u64
    add_ok,        \* history: number of add_admin calls that returned Ok
    cast_ok,       \* history: <<voter, poll_id, option_idx>> of every cast_vote that returned Ok
    end_ok,        \* history: poll ids on which an end_poll returned Ok
    create_ok      \* history: number of create_poll calls that returned Ok

vars == <<admins, polls, next_poll_id, add_ok, cast_ok, end_ok, create_ok>>

contract == <<admins, polls, next_poll_id>>

-----------------------------------------------------------------------------
(* Bounds and input sets.                                                  *)

\* create_poll is not called by an admin once MaxPolls polls exist.
MaxPolls == 2
\* add_admin is not called by an admin once the admin list has MaxAdmins entries.
MaxAdmins == 2

\* Address(Vec<u8>): byte strings, compared byte-wise.
DefaultAdmin == <<0>>
Addresses == {<<0>>, <<1>>}

\* Arguments handed to create_poll: a poll with empty texts and no option,
\* and the poll of the documentation example.
CreateArgs ==
    { [title |-> "", description |-> "", options |-> << >>, duration |-> 0],
      [title |-> "Best Programming Language", description |-> "Vote for your favorite",
       options |-> <<"Rust", "Go">>, duration |-> 86400] }

\* Poll ids handed to end_poll and cast_vote: each exists once created.
PollIdArgs == 1..MaxPolls
\* Option indexes handed to cast_vote: every index of the longest option
\* list, and one past it.
LongestOptions == CHOOSE n \in {Len(a.options) : a \in CreateArgs} :
                      \A a \in CreateArgs : Len(a.options) <= n
OptionIdxArgs == 0..LongestOptions

-----------------------------------------------------------------------------
(* Rust collections.                                                       *)

\* Vec::contains
Contains(vec, x) == \E i \in 1..Len(vec) : vec[i] = x

\* Vec::push dropping the oldest entry of the vector.
Push_Evict(vec, x) == Append(Tail(vec), x)

\* Vec::push skipping a value the vector holds already.
Push_Dedup(vec, x) == IF Contains(vec, x) THEN vec ELSE Append(vec, x)

\* Vec::push
Push(vec, x) == Append(vec, x)

\* vec![0; n]
Zeros(n) == [i \in 1..n |-> 0]

\* HashMap<Address, usize> as a set of <<key, value>> entries.
ContainsKey(map, k) == \E e \in map : e[1] = k

\* HashMap::insert: the entry of an existing key is replaced.
MapInsert(map, k, v) == {e \in map : e[1] # k} \cup {<<k, v>>}

\* The increment with option_idx taken as one-based.
Increment_OneBased(counts, idx) ==
    IF idx \in DOMAIN counts THEN [counts EXCEPT ![idx] = @ + 1] ELSE counts

\* vote_counts[option_idx] += 1, option_idx zero-based.
Increment(counts, idx) == [counts EXCEPT ![idx + 1] = @ + 1]

-----------------------------------------------------------------------------
(* The operations.                                                         *)

\* Result<T, VotingError>: Ok(val), with val = << >> for Ok(()), or Err(e).
Ok(val) == [ok |-> TRUE, val |-> val]
Err(e) == [ok |-> FALSE, err |-> e]
Unit == << >>

Init ==
    /\ admins = <<DefaultAdmin>>
    /\ polls = << >>
    /\ next_poll_id = 1
    /\ add_ok = 0
    /\ cast_ok = {}
    /\ end_ok = {}
    /\ create_ok = 0

\* add_admin accepting the first entry of admins only.
add_admin_result_BootstrapOnly(caller) ==
    IF admins[1] # caller THEN Err("Unauthorized") ELSE Ok(Unit)

\* Result of add_admin, from its one check.
add_admin_result(caller) ==
    IF ~Contains(admins, caller) THEN Err("Unauthorized") ELSE Ok(Unit)

add_admin(caller, new_admin) ==
    LET r == add_admin_result(caller) IN
    /\ UNCHANGED <<next_poll_id, cast_ok, end_ok, create_ok, polls>>
    /\ r.ok => Len(admins) < MaxAdmins
    /\ IF r.ok
          THEN /\ add_ok' = add_ok + 1
               /\ admins' = Push(admins, new_admin)
          ELSE UNCHANGED <<add_ok, admins>>

\* create_poll leaving the vector of counters empty.
NewPoll_NoCounts(caller, title, description, options, duration) ==
    [ title       |-> title,
      description |-> description,
      options     |-> options,
      votes       |-> {},
      vote_counts |-> << >>,
      end_time    |-> duration,
      creator     |-> caller,
      is_active   |-> TRUE ]

\* The Poll built by create_poll.
NewPoll(caller, title, description, options, duration) ==
    [ title       |-> title,
      description |-> description,
      options     |-> options,
      votes       |-> {},
      vote_counts |-> Zeros(Len(options)),
      end_time    |-> duration,
      creator     |-> caller,
      is_active   |-> TRUE ]

\* HashMap<u64, Poll>::insert
PollsInsert(map, id, poll) ==
    [k \in DOMAIN map \cup {id} |-> IF k = id THEN poll ELSE map[k]]

\* create_poll without its admin check.
create_poll_result_NoCheck(caller) == Ok(next_poll_id)

\* create_poll reading the poll id after it has incremented next_poll_id.
create_poll_result_IdAfterIncrement(caller) ==
    IF ~Contains(admins, caller) THEN Err("Unauthorized") ELSE Ok(next_poll_id + 1)

\* Result of create_poll: its one check, and the id it takes from
\* next_poll_id before incrementing it.
create_poll_result(caller) ==
    IF ~Contains(admins, caller) THEN Err("Unauthorized") ELSE Ok(next_poll_id)

create_poll(caller, title, description, options, duration) ==
    LET r == create_poll_result(caller) IN
    /\ UNCHANGED <<add_ok, cast_ok, end_ok, admins>>
    /\ r.ok => next_poll_id <= MaxPolls
    /\ IF r.ok
          THEN /\ create_ok' = create_ok + 1
               /\ next_poll_id' = next_poll_id + 1
               /\ polls' = PollsInsert(polls, r.val,
                               NewPoll(caller, title, description, options, duration))
          ELSE UNCHANGED <<create_ok, next_poll_id, polls>>

\* end_poll checking the caller against admins before it looks the poll up.
end_poll_result_AuthFirst(caller, poll_id) ==
    IF ~Contains(admins, caller)
          /\ (poll_id \notin DOMAIN polls \/ polls[poll_id].creator # caller)
    THEN Err("Unauthorized")
    ELSE IF poll_id \notin DOMAIN polls THEN Err("PollNotFound")
    ELSE Ok(Unit)

\* end_poll refusing a poll that was ended before.
end_poll_result_PollEnded(caller, poll_id) ==
    IF poll_id \notin DOMAIN polls THEN Err("PollNotFound")
    ELSE IF ~Contains(admins, caller) /\ polls[poll_id].creator # caller
         THEN Err("Unauthorized")
    ELSE IF ~polls[poll_id].is_active THEN Err("PollEnded")
    ELSE Ok(Unit)

\* Result of end_poll: the poll is looked up first, then the caller is checked.
end_poll_result(caller, poll_id) ==
    IF poll_id \notin DOMAIN polls THEN Err("PollNotFound")
    ELSE IF ~Contains(admins, caller) /\ polls[poll_id].creator # caller
         THEN Err("Unauthorized")
    ELSE Ok(Unit)

\* end_poll flipping the flag instead of clearing it.
EndedPoll_Toggle(poll) == [poll EXCEPT !.is_active = ~@]

\* end_poll clearing the votes of the poll as well.
EndedPoll_ResetVotes(poll) ==
    [poll EXCEPT !.is_active = FALSE, !.votes = {}, !.vote_counts = Zeros(Len(@))]

\* poll.is_active = false
EndedPoll(poll) == [poll EXCEPT !.is_active = FALSE]

end_poll(caller, poll_id) ==
    LET r == end_poll_result(caller, poll_id) IN
    /\ UNCHANGED <<next_poll_id, add_ok, cast_ok, create_ok, admins>>
    /\ IF r.ok
          THEN /\ end_ok' = end_ok \cup {poll_id}
               /\ polls' = [polls EXCEPT ![poll_id] = EndedPoll(@)]
          ELSE UNCHANGED <<end_ok, polls>>

\* cast_vote without its duplicate-vote check.
cast_vote_result_NoAlreadyVoted(voter, poll_id, option_idx) ==
    IF poll_id \notin DOMAIN polls THEN Err("PollNotFound")
    ELSE IF ~polls[poll_id].is_active THEN Err("PollInactive")
    ELSE IF option_idx >= Len(polls[poll_id].options) THEN Err("InvalidOption")
    ELSE Ok(Unit)

\* cast_vote looking for a duplicate vote before it looks at is_active.
cast_vote_result_DuplicateFirst(voter, poll_id, option_idx) ==
    IF poll_id \notin DOMAIN polls THEN Err("PollNotFound")
    ELSE IF ContainsKey(polls[poll_id].votes, voter) THEN Err("AlreadyVoted")
    ELSE IF ~polls[poll_id].is_active THEN Err("PollInactive")
    ELSE IF option_idx >= Len(polls[poll_id].options) THEN Err("InvalidOption")
    ELSE Ok(Unit)

\* cast_vote checking the option index before it looks for a duplicate vote.
cast_vote_result_BoundsFirst(voter, poll_id, option_idx) ==
    IF poll_id \notin DOMAIN polls THEN Err("PollNotFound")
    ELSE IF ~polls[poll_id].is_active THEN Err("PollInactive")
    ELSE IF option_idx >= Len(polls[poll_id].options) THEN Err("InvalidOption")
    ELSE IF ContainsKey(polls[poll_id].votes, voter) THEN Err("AlreadyVoted")
    ELSE Ok(Unit)

\* cast_vote without its test of is_active.
cast_vote_result_NoInactive(voter, poll_id, option_idx) ==
    IF poll_id \notin DOMAIN polls THEN Err("PollNotFound")
    ELSE IF ContainsKey(polls[poll_id].votes, voter) THEN Err("AlreadyVoted")
    ELSE IF option_idx >= Len(polls[poll_id].options) THEN Err("InvalidOption")
    ELSE Ok(Unit)

\* cast_vote accepting the index one past the last option.
cast_vote_result_OffByOne(voter, poll_id, option_idx) ==
    IF poll_id \notin DOMAIN polls THEN Err("PollNotFound")
    ELSE IF ~polls[poll_id].is_active THEN Err("PollInactive")
    ELSE IF ContainsKey(polls[poll_id].votes, voter) THEN Err("AlreadyVoted")
    ELSE IF option_idx > Len(polls[poll_id].options) THEN Err("InvalidOption")
    ELSE Ok(Unit)

\* Result of cast_vote: its four checks, in the order of the code.
cast_vote_result(voter, poll_id, option_idx) ==
    IF poll_id \notin DOMAIN polls THEN Err("PollNotFound")
    ELSE IF ~polls[poll_id].is_active THEN Err("PollInactive")
    ELSE IF ContainsKey(polls[poll_id].votes, voter) THEN Err("AlreadyVoted")
    ELSE IF option_idx >= Len(polls[poll_id].options) THEN Err("InvalidOption")
    ELSE Ok(Unit)

\* cast_vote recording the vote without counting it.
RecordVote_NoCount(poll, voter, option_idx) ==
    [poll EXCEPT !.votes = MapInsert(@, voter, option_idx)]

\* The two updates of a successful cast_vote.
RecordVote(poll, voter, option_idx) ==
    [poll EXCEPT !.votes = MapInsert(@, voter, option_idx),
                 !.vote_counts = Increment(@, option_idx)]

\* cast_vote inserting the vote before it checks the option index.
cast_vote_InsertFirst(voter, poll_id, option_idx) ==
    LET r == cast_vote_result(voter, poll_id, option_idx) IN
    /\ UNCHANGED <<next_poll_id, add_ok, end_ok, create_ok, admins>>
    /\ IF r.ok
          THEN /\ cast_ok' = cast_ok \cup {<<voter, poll_id, option_idx>>}
               /\ polls' = [polls EXCEPT ![poll_id] = RecordVote(@, voter, option_idx)]
          ELSE /\ cast_ok' = cast_ok
               /\ polls' = IF r = Err("InvalidOption")
                              THEN [polls EXCEPT ![poll_id].votes =
                                                     MapInsert(@, voter, option_idx)]
                              ELSE polls

cast_vote(voter, poll_id, option_idx) ==
    LET r == cast_vote_result(voter, poll_id, option_idx) IN
    /\ UNCHANGED <<next_poll_id, add_ok, end_ok, create_ok, admins>>
    /\ IF r.ok
          THEN /\ cast_ok' = cast_ok \cup {<<voter, poll_id, option_idx>>}
               /\ polls' = [polls EXCEPT ![poll_id] = RecordVote(@, voter, option_idx)]
          ELSE UNCHANGED <<cast_ok, polls>>

-----------------------------------------------------------------------------
(* The read-only queries, as functions of the state.                       *)

Min(a, b) == IF a <= b THEN a ELSE b

\* Iterator::zip, collected: as long as the shorter of the two.
Zip(a, b) == [i \in 1..Min(Len(a), Len(b)) |-> <<a[i], b[i]>>]

get_poll_results(poll_id) ==
    IF poll_id \notin DOMAIN polls
    THEN Err("PollNotFound")
    ELSE Ok(Zip(polls[poll_id].options, polls[poll_id].vote_counts))

\* get_active_polls without its filter.
ActiveIds_All == DOMAIN polls

\* The ids of the polls that pass the filter of get_active_polls.
ActiveIds == {id \in DOMAIN polls : polls[id].is_active}

\* The orders in which a HashMap may iterate over the ids in S: every
\* sequence holding each id of S exactly once.
Orders(S) ==
    {seq \in [1..Cardinality(S) -> S] : \A id \in S : \E i \in DOMAIN seq : seq[i] = id}

\* get_active_polls: the vectors of (id, &Poll) it may return, one for every
\* iteration order of the map.
get_active_polls ==
    {[i \in DOMAIN seq |-> <<seq[i], polls[seq[i]]>>] : seq \in Orders(ActiveIds)}

\* get_voter_participation counting the active polls only.
get_voter_participation_ActiveOnly(voter) ==
    Cardinality({id \in DOMAIN polls :
                    polls[id].is_active /\ ContainsKey(polls[id].votes, voter)})

get_voter_participation(voter) ==
    Cardinality({id \in DOMAIN polls : ContainsKey(polls[id].votes, voter)})

get_poll_details(poll_id) ==
    IF poll_id \notin DOMAIN polls
    THEN Err("PollNotFound")
    ELSE Ok(polls[poll_id])

-----------------------------------------------------------------------------

Next ==
    \/ \E caller \in Addresses, new_admin \in Addresses : add_admin(caller, new_admin)
    \/ \E caller \in Addresses, a \in CreateArgs :
           create_poll(caller, a.title, a.description, a.options, a.duration)
    \/ \E caller \in Addresses, poll_id \in PollIdArgs : end_poll(caller, poll_id)
    \/ \E voter \in Addresses, poll_id \in PollIdArgs, option_idx \in OptionIdxArgs :
           cast_vote(voter, poll_id, option_idx)

Spec == Init /\ [][Next]_vars

-----------------------------------------------------------------------------
(* The claims.                                                             *)

Poll(id) == polls[id]

\* The entries of a votes map for option index i (zero-based).
VotersOf(votes, i) == {e \in votes : e[2] = i}

\* C1: in every reachable state every poll has as many counters as options,
\* the counter of every option index i equals the number of voters whose
\* votes entry is i, and no address has two entries in votes.
C1_CountsMatchVotes ==
    \A id \in DOMAIN polls :
        /\ Len(Poll(id).vote_counts) = Len(Poll(id).options)
        /\ \A i \in 0..(Len(Poll(id).options) - 1) :
               Poll(id).vote_counts[i + 1] = Cardinality(VotersOf(Poll(id).votes, i))
        /\ \A e1, e2 \in Poll(id).votes : e1[1] = e2[1] => e1 = e2

\* Both polls exist; one holds two votes, one for each option, and the
\* other was ended with both votes on the same option.
C1_Witness ==
    \E p, q \in DOMAIN polls :
        /\ Poll(p).vote_counts = <<1, 1>>
        /\ Cardinality(Poll(p).votes) = 2
        /\ Poll(q).vote_counts = <<0, 2>>
        /\ ~Poll(q).is_active

\* C2: once cast_vote(v, p, i) has returned Ok, every cast_vote(v, p, j)
\* made while p is active, for any j (in range or not), returns AlreadyVoted
\* and leaves the votes and the counters of p as they were.
C2_VotesOnce ==
    /\ [](\A c \in cast_ok : \A j \in OptionIdxArgs :
              Poll(c[2]).is_active =>
                  cast_vote_result(c[1], c[2], j) = Err("AlreadyVoted"))
    /\ [][\A c \in cast_ok :
              \/ /\ polls'[c[2]].votes = Poll(c[2]).votes
                 /\ polls'[c[2]].vote_counts = Poll(c[2]).vote_counts
              \/ \A j \in OptionIdxArgs :
                     ~(Poll(c[2]).is_active /\ cast_vote(c[1], c[2], j))]_vars

\* A voter has voted in an active poll and, since, an admin was added, the
\* other voter voted in the same poll, and the other poll was voted in and
\* ended: a cast_vote by the first voter is still refused for every index.
C2_Witness ==
    \E c \in cast_ok :
        /\ Poll(c[2]).is_active
        /\ Cardinality(Poll(c[2]).votes) = 2
        /\ Len(admins) > 1
        /\ \E q \in end_ok : q # c[2] /\ Poll(q).votes # {}
        /\ \A j \in OptionIdxArgs :
               cast_vote_result(c[1], c[2], j) = Err("AlreadyVoted")

\* C3: a cast_vote(v, p, i) on an existing active poll p in which v has no
\* entry, with i < len(options), returns Ok, adds the entry v -> i to the
\* votes of p, adds 1 to vote_counts[i] of p, and changes nothing else: not
\* the other counters or fields of p, not another poll, not the admin list
\* and not next_poll_id.
C3_VoteFrame ==
    [][\A p \in PollIdArgs, v \in Addresses, i \in OptionIdxArgs :
           ( /\ p \in DOMAIN polls
             /\ Poll(p).is_active
             /\ i < Len(Poll(p).options)
             /\ ~ContainsKey(Poll(p).votes, v)
             /\ cast_vote(v, p, i) ) =>
               /\ cast_vote_result(v, p, i) = Ok(Unit)
               /\ DOMAIN polls' = DOMAIN polls
               /\ polls'[p].votes = Poll(p).votes \cup {<<v, i>>}
               /\ Len(polls'[p].vote_counts) = Len(Poll(p).vote_counts)
               /\ \A k \in 0..(Len(Poll(p).vote_counts) - 1) :
                      polls'[p].vote_counts[k + 1] =
                          Poll(p).vote_counts[k + 1] + (IF k = i THEN 1 ELSE 0)
               /\ [polls'[p] EXCEPT !.votes = {}, !.vote_counts = << >>] =
                      [Poll(p) EXCEPT !.votes = {}, !.vote_counts = << >>]
               /\ \A q \in DOMAIN polls \ {p} : polls'[q] = Poll(q)
               /\ admins' = admins
               /\ next_poll_id' = next_poll_id]_vars

\* Votes were accepted for both options of a poll, one by each voter, while
\* the other poll holds one vote and is still active.
C3_Witness ==
    \E p, q \in DOMAIN polls :
        /\ p # q
        /\ \E c, d \in cast_ok : c[2] = p /\ d[2] = p /\ c[3] # d[3]
        /\ Poll(p).vote_counts = <<1, 1>>
        /\ Poll(q).vote_counts = <<1, 0>>
        /\ Poll(q).is_active

\* C4: a create_poll or an add_admin by a caller that is not in admins
\* returns Unauthorized and leaves admins, polls and next_poll_id unchanged.
C4_NonAdminRejected ==
    /\ [](\A caller \in Addresses :
              ~Contains(admins, caller) =>
                  /\ create_poll_result(caller) = Err("Unauthorized")
                  /\ add_admin_result(caller) = Err("Unauthorized"))
    /\ [][\A caller \in Addresses :
              ~Contains(admins, caller) =>
                  /\ \A a \in CreateArgs :
                         create_poll(caller, a.title, a.description, a.options, a.duration)
                             => contract' = contract
                  /\ \A new_admin \in Addresses :
                         add_admin(caller, new_admin) => contract' = contract]_vars

\* An address is not an admin although an admin was added and a poll was
\* created and voted in: its create_poll and add_admin are refused, and the
\* next id is the one after the only poll.
C4_Witness ==
    \E caller \in Addresses :
        /\ ~Contains(admins, caller)
        /\ create_poll_result(caller) = Err("Unauthorized")
        /\ add_admin_result(caller) = Err("Unauthorized")
        /\ Len(admins) = 2
        /\ DOMAIN polls = {1}
        /\ next_poll_id = 2
        /\ ContainsKey(Poll(1).votes, caller)

\* C5: after an end_poll on p has returned Ok, every cast_vote on p, for any
\* voter (one who voted in p too) and any option index (in range or not),
\* returns PollInactive, and no vector that get_active_polls may return
\* holds p.
C5_EndedPollClosed ==
    \A p \in end_ok :
        /\ \A v \in Addresses, i \in OptionIdxArgs :
               cast_vote_result(v, p, i) = Err("PollInactive")
        /\ \A r \in get_active_polls : \A k \in DOMAIN r : r[k][1] # p

\* A poll was ended that holds the vote of one voter and not of the other,
\* while the other poll is active: get_active_polls returns the other poll
\* alone.
C5_Witness ==
    \E p \in end_ok, q \in DOMAIN polls :
        /\ Cardinality(Poll(p).votes) = 1
        /\ Poll(q).is_active
        /\ get_active_polls = {<< <<q, Poll(q)>> >>}

\* C6: a poll is created with is_active = true, and a poll whose is_active
\* is false keeps it false in every later state: no step takes a poll from
\* Ended back to Active (and no step removes a poll).
C6_LifecycleOneWay ==
    [][/\ \A id \in DOMAIN polls :
              /\ id \in DOMAIN polls'
              /\ ~Poll(id).is_active => ~polls'[id].is_active
       /\ \A id \in DOMAIN polls' \ DOMAIN polls : polls'[id].is_active]_vars

\* The first poll was ended; the second poll is active and was voted in by
\* both voters, and an admin was added.
C6_Witness ==
    /\ 1 \in end_ok
    /\ ~Poll(1).is_active
    /\ 2 \in DOMAIN polls
    /\ Poll(2).is_active
    /\ Cardinality(Poll(2).votes) = 2
    /\ Len(admins) = 2

\* C7: cast_vote returns the error of the first failing check, in the order
\* poll exists, poll is active, voter has not voted, option_idx in range:
\* PollNotFound, else PollInactive, else AlreadyVoted, else InvalidOption,
\* else Ok.
C7_CheckOrder ==
    \A v \in Addresses, p \in PollIdArgs, i \in OptionIdxArgs :
        /\ p \notin DOMAIN polls => cast_vote_result(v, p, i) = Err("PollNotFound")
        /\ p \in DOMAIN polls =>
               /\ ~Poll(p).is_active =>
                      cast_vote_result(v, p, i) = Err("PollInactive")
               /\ (Poll(p).is_active /\ ContainsKey(Poll(p).votes, v)) =>
                      cast_vote_result(v, p, i) = Err("AlreadyVoted")
               /\ ( /\ Poll(p).is_active
                    /\ ~ContainsKey(Poll(p).votes, v)
                    /\ i >= Len(Poll(p).options) ) =>
                      cast_vote_result(v, p, i) = Err("InvalidOption")
               /\ ( /\ Poll(p).is_active
                    /\ ~ContainsKey(Poll(p).votes, v)
                    /\ i < Len(Poll(p).options) ) =>
                      cast_vote_result(v, p, i) = Ok(Unit)

\* Several checks fail at once: a voter has voted in an ended poll and in
\* an active poll. With an index out of range its cast_vote returns
\* PollInactive on the first and AlreadyVoted on the second, where the other
\* voter gets InvalidOption.
C7_Witness ==
    \E v, w \in Addresses, p, q \in DOMAIN polls :
        /\ ~Poll(p).is_active /\ ContainsKey(Poll(p).votes, v)
        /\ Poll(q).is_active /\ ContainsKey(Poll(q).votes, v)
        /\ ~ContainsKey(Poll(q).votes, w)
        /\ cast_vote_result(v, p, LongestOptions) = Err("PollInactive")
        /\ cast_vote_result(v, q, LongestOptions) = Err("AlreadyVoted")
        /\ cast_vote_result(w, q, LongestOptions) = Err("InvalidOption")

\* The pairs get_poll_results returns for a poll with these options and no
\* vote.
ZeroResults(options) == [i \in 1..Len(options) |-> <<options[i], 0>>]

\* C8: a create_poll by a caller in admins, with any option list (the empty
\* one too), returns Ok(id) and stores under id a poll with these options,
\* no vote, one counter per option, all 0, end_time = duration, creator =
\* caller and is_active = true; get_poll_results(id) then returns one pair
\* (options[i], 0) per option, in order.
C8_CreateStoresFreshPoll ==
    [][\A caller \in Addresses, a \in CreateArgs :
           ( /\ Contains(admins, caller)
             /\ create_poll(caller, a.title, a.description, a.options, a.duration) ) =>
               \E id \in 1..MaxPolls :
                   /\ create_poll_result(caller) = Ok(id)
                   /\ id \in DOMAIN polls'
                   /\ polls'[id].options = a.options
                   /\ polls'[id].votes = {}
                   /\ Len(polls'[id].vote_counts) = Len(a.options)
                   /\ \A k \in 1..Len(a.options) : polls'[id].vote_counts[k] = 0
                   /\ polls'[id].end_time = a.duration
                   /\ polls'[id].creator = caller
                   /\ polls'[id].is_active
                   /\ get_poll_results(id)' = Ok(ZeroResults(a.options))]_vars

\* The second poll was created by the added admin with no option and empty
\* texts, beside a poll with two options that holds votes; nothing was done
\* to the second poll since.
C8_Witness ==
    /\ create_ok = 2
    /\ DOMAIN polls = {1, 2}
    /\ Poll(2) = NewPoll(<<1>>, "", "", << >>, 0)
    /\ get_poll_results(2) = Ok(<< >>)
    /\ Len(Poll(1).options) = 2
    /\ Poll(1).votes # {}

\* C9: next_poll_id starts at 1; the k-th create_poll that succeeds returns
\* k and adds 1 to next_poll_id; no other step (a refused create_poll
\* included) changes next_poll_id; the poll ids in use are always exactly
\* 1 .. next_poll_id - 1.
C9_SequentialIds ==
    /\ next_poll_id = 1
    /\ [](/\ DOMAIN polls = 1..(next_poll_id - 1)
          /\ next_poll_id = create_ok + 1
          /\ \A caller \in Addresses :
                 Contains(admins, caller) =>
                     create_poll_result(caller) = Ok(create_ok + 1))
    /\ [][/\ \A caller \in Addresses, a \in CreateArgs :
                 create_poll(caller, a.title, a.description, a.options, a.duration) =>
                     IF Contains(admins, caller)
                     THEN /\ create_ok' = create_ok + 1
                          /\ next_poll_id' = next_poll_id + 1
                          /\ DOMAIN polls' = DOMAIN polls \cup {create_ok'}
                     ELSE /\ next_poll_id' = next_poll_id
                          /\ create_ok' = create_ok
          /\ create_ok' = create_ok => next_poll_id' = next_poll_id]_vars

\* Two create_poll calls have succeeded, the second by the added admin, and
\* votes were cast and a poll ended since.
C9_Witness ==
    /\ create_ok = 2
    /\ next_poll_id = 3
    /\ DOMAIN polls = {1, 2}
    /\ Poll(2).creator # DefaultAdmin
    /\ cast_ok # {}
    /\ end_ok # {}

\* s is a prefix of t.
IsPrefix(s, t) == Len(s) <= Len(t) /\ SubSeq(t, 1, Len(s)) = s

\* C10: admins starts as the one bootstrap admin; an add_admin(c, a) by an
\* admin c returns Ok and appends a, also when a is already in the list, so
\* that the list is one longer for every add_admin that succeeded; every
\* step leaves the old list a prefix of the new one; a step that changes the
\* list is no create_poll, end_poll or cast_vote.
C10_AdminsAppendOnly ==
    /\ admins = <<DefaultAdmin>>
    /\ [](Len(admins) = 1 + add_ok /\ admins[1] = DefaultAdmin)
    /\ [][/\ IsPrefix(admins, admins')
          /\ \A caller \in Addresses, new_admin \in Addresses :
                 (Contains(admins, caller) /\ add_admin(caller, new_admin)) =>
                     /\ add_admin_result(caller) = Ok(Unit)
                     /\ admins' = Append(admins, new_admin)
          /\ admins' # admins =>
                 /\ \A caller \in Addresses, a \in CreateArgs :
                        ~create_poll(caller, a.title, a.description, a.options, a.duration)
                 /\ \A caller \in Addresses, p \in PollIdArgs : ~end_poll(caller, p)
                 /\ \A v \in Addresses, p \in PollIdArgs, i \in OptionIdxArgs :
                        ~cast_vote(v, p, i)]_vars

\* The bootstrap admin was added a second time, and polls were created,
\* voted in and ended since.
C10_Witness ==
    /\ admins = <<DefaultAdmin, DefaultAdmin>>
    /\ add_ok = 1
    /\ create_ok = 2
    /\ end_ok # {}
    /\ cast_ok # {}


\* The callers end_poll accepts on an existing poll p.
MayEnd(c, p) == Contains(admins, c) \/ Poll(p).creator = c

\* C11: end_poll(c, p) returns PollNotFound when p does not exist, for every
\* caller c, admin or not; when p exists it returns Ok iff c is in admins or
\* c is the creator of p, and then p.is_active is false after the call;
\* otherwise it returns Unauthorized and p.is_active is what it was.
C11_EndPollContract ==
    /\ [](\A c \in Addresses, p \in PollIdArgs :
              IF p \notin DOMAIN polls
              THEN end_poll_result(c, p) = Err("PollNotFound")
              ELSE /\ end_poll_result(c, p) = Ok(Unit) <=> MayEnd(c, p)
                   /\ ~MayEnd(c, p) => end_poll_result(c, p) = Err("Unauthorized"))
    /\ [][\A p \in DOMAIN polls, c \in Addresses :
              end_poll(c, p) =>
                  IF MayEnd(c, p)
                  THEN ~polls'[p].is_active
                  ELSE polls'[p].is_active = Poll(p).is_active]_vars

\* Poll 1 was ended and poll 2 does not exist: an address that is neither an
\* admin nor the creator is refused on poll 1, and both it and the bootstrap
\* admin get PollNotFound on poll 2.
C11_Witness ==
    /\ DOMAIN polls = {1}
    /\ 1 \in end_ok
    /\ ~Poll(1).is_active
    /\ \E c \in Addresses :
           /\ ~MayEnd(c, 1)
           /\ end_poll_result(c, 1) = Err("Unauthorized")
           /\ end_poll_result(c, 2) = Err("PollNotFound")
    /\ end_poll_result(DefaultAdmin, 2) = Err("PollNotFound")
    /\ end_poll_result(DefaultAdmin, 1) = Ok(Unit)

\* C12: on a poll p that is already ended, an end_poll by an admin or by the
\* creator of p returns Ok, the write it makes stores the poll that is there
\* already, and the step leaves admins, polls and next_poll_id as they are.
C12_EndPollIdempotent ==
    /\ [](\A p \in DOMAIN polls, c \in Addresses :
              (~Poll(p).is_active /\ MayEnd(c, p)) =>
                  /\ end_poll_result(c, p) = Ok(Unit)
                  /\ [polls EXCEPT ![p] = EndedPoll(@)] = polls)
    /\ [][\A p \in DOMAIN polls, c \in Addresses :
              (~Poll(p).is_active /\ MayEnd(c, p) /\ end_poll(c, p)) =>
                  contract' = contract]_vars

\* A poll holding a vote was ended while the other poll is active, and there
\* are two admins, one of them not the creator: each may end it again.
C12_Witness ==
    \E p \in end_ok, q \in DOMAIN polls :
        /\ ~Poll(p).is_active
        /\ Poll(p).votes # {}
        /\ Poll(q).is_active
        /\ \E c, d \in Addresses :
               /\ c # d
               /\ Poll(p).creator = c
               /\ Contains(admins, d)
               /\ end_poll_result(c, p) = Ok(Unit)
               /\ end_poll_result(d, p) = Ok(Unit)

\* The ids of the polls, active or ended, whose votes hold an entry of v.
PollsVotedIn(v) == {p \in DOMAIN polls : \E e \in Poll(p).votes : e[1] = v}

\* The poll ids on which a cast_vote by v has returned Ok.
PollsCastIn(v) == {c[2] : c \in {d \in cast_ok : d[1] = v}}

\* C13: for every address v, get_voter_participation(v) is the number of
\* polls, active or ended, whose votes hold an entry of v, which is the
\* number of distinct poll ids on which a cast_vote by v has returned Ok; a
\* step that lowers it for some address is no end_poll.
C13_Participation ==
    /\ [](\A v \in Addresses :
              /\ get_voter_participation(v) = Cardinality(PollsVotedIn(v))
              /\ PollsVotedIn(v) = PollsCastIn(v))
    /\ [][\/ \A v \in Addresses :
                 get_voter_participation(v)' >= get_voter_participation(v)
          \/ \A c \in Addresses, p \in PollIdArgs : ~end_poll(c, p)]_vars

\* One address has voted in two polls, one of which was ended since, and the
\* other address has voted in the ended poll only.
C13_Witness ==
    \E v, w \in Addresses :
        /\ get_voter_participation(v) = 2
        /\ get_voter_participation(w) = 1
        /\ \E p \in end_ok :
               /\ ~Poll(p).is_active
               /\ p \in PollsCastIn(v)
               /\ p \in PollsCastIn(w)

\* The ids of a vector of (id, &Poll) pairs.
IdsOf(res) == {res[i][1] : i \in DOMAIN res}

\* C14: whatever the iteration order of the map, the ids get_active_polls
\* returns are exactly the ids of the polls with is_active = true, each once
\* and each with its poll: these are the polls that were created and on
\* which no end_poll has returned Ok.
C14_ActivePolls ==
    /\ get_active_polls # {}
    /\ \A res \in get_active_polls :
           /\ IdsOf(res) = {p \in DOMAIN polls : Poll(p).is_active}
           /\ IdsOf(res) = (1..create_ok) \ end_ok
           /\ \A i, j \in DOMAIN res : res[i][1] = res[j][1] => i = j
           /\ \A i \in DOMAIN res : res[i][2] = Poll(res[i][1])

\* Two polls were created and the first was ended after a vote: the only
\* vector get_active_polls returns holds poll 2.
C14_Witness ==
    /\ create_ok = 2
    /\ end_ok = {1}
    /\ Poll(1).votes # {}
    /\ get_active_polls = {<< <<2, Poll(2)>> >>}

\* The calls of an admin that succeed: create_poll, add_admin, and end_poll
\* on every existing poll.
Privileged(a) ==
    /\ create_poll_result(a) = Ok(next_poll_id)
    /\ add_admin_result(a) = Ok(Unit)
    /\ \A p \in DOMAIN polls : end_poll_result(a, p) = Ok(Unit)

\* Result of get_poll_results in the documentation example.
ExampleResults == << <<"Rust", 1>>, <<"Go", 0>> >>

\* C15: an add_admin(c, a) that returns Ok puts a behind the bootstrap admin
\* in admins, an entry behind the bootstrap admin stays where it is, and
\* every such entry creates polls, adds admins and ends every existing poll,
\* its own or not; a poll with the options Rust and Go created by an added
\* admin and holding one vote, for index 0, has the results (Rust, 1), (Go, 0).
C15_AddedAdminPrivileged ==
    /\ [](/\ \A i \in 2..Len(admins) : Privileged(admins[i])
          /\ \A p \in DOMAIN polls, i \in 2..Len(admins), v \in Addresses :
                 ( /\ Poll(p).creator = admins[i]
                   /\ Poll(p).options = <<"Rust", "Go">>
                   /\ Poll(p).votes = {<<v, 0>>} ) =>
                     get_poll_results(p) = Ok(ExampleResults))
    /\ [][/\ \A c \in Addresses, a \in Addresses :
                 (Contains(admins, c) /\ add_admin(c, a)) =>
                     /\ add_admin_result(c) = Ok(Unit)
                     /\ \E i \in 2..Len(admins') : admins'[i] = a
                     /\ Privileged(a)'
          /\ \A i \in 2..Len(admins) :
                 i <= Len(admins') /\ admins'[i] = admins[i]]_vars

\* The bootstrap admin has added another address, which has created the
\* first poll with the options Rust and Go; one vote was cast in it, for
\* index 0; the second poll is the bootstrap admin's, and the added admin
\* may end it.
C15_Witness ==
    /\ Len(admins) = 2
    /\ admins[2] # DefaultAdmin
    /\ Privileged(admins[2])
    /\ DOMAIN polls = {1, 2}
    /\ Poll(1).creator = admins[2]
    /\ Poll(1).options = <<"Rust", "Go">>
    /\ \E v \in Addresses : Poll(1).votes = {<<v, 0>>}
    /\ get_poll_results(1) = Ok(ExampleResults)
    /\ Poll(2).creator = DefaultAdmin
    /\ Poll(2).is_active
    /\ end_poll_result(admins[2], 2) = Ok(Unit)

\* The fields of a poll given at its creation.
Definition(poll) ==
    <<poll.title, poll.description, poll.options, poll.end_time, poll.creator>>

\* C16: in every step every existing poll stays under its id with the same
\* title, description, options, end_time and creator; at most one poll is
\* new or changed; a step that changes is_active of a poll is an end_poll on
\* it and leaves its votes and vote_counts; a step that changes votes or
\* vote_counts of a poll is a cast_vote on it and leaves its is_active.
C16_PollsFixed ==
    [][/\ DOMAIN polls \subseteq DOMAIN polls'
       /\ Cardinality({p \in DOMAIN polls' :
                          p \notin DOMAIN polls \/ polls'[p] # Poll(p)}) <= 1
       /\ \A p \in DOMAIN polls :
              /\ Definition(polls'[p]) = Definition(Poll(p))
              /\ polls'[p].is_active # Poll(p).is_active =>
                     /\ \E c \in Addresses : end_poll(c, p)
                     /\ polls'[p].votes = Poll(p).votes
                     /\ polls'[p].vote_counts = Poll(p).vote_counts
              /\ ( \/ polls'[p].votes # Poll(p).votes
                   \/ polls'[p].vote_counts # Poll(p).vote_counts ) =>
                     /\ \E v \in Addresses, i \in OptionIdxArgs : cast_vote(v, p, i)
                     /\ polls'[p].is_active = Poll(p).is_active]_vars

\* Two polls of different creators and options: the one without options was
\* ended, the other holds the votes of both addresses.
C16_Witness ==
    /\ create_ok = 2
    /\ \E p, q \in DOMAIN polls :
           /\ Poll(p).creator # Poll(q).creator
           /\ Poll(p).options = << >>
           /\ p \in end_ok
           /\ ~Poll(p).is_active
           /\ Poll(q).options = <<"Rust", "Go">>
           /\ Poll(q).end_time = 86400
           /\ Cardinality(Poll(q).votes) = 2
           /\ Poll(q).is_active

\* C17: a cast_vote returns Ok or one of PollNotFound, PollInactive,
\* AlreadyVoted and InvalidOption, an end_poll returns Ok, PollNotFound or
\* Unauthorized, and a call of either that returns an error leaves admins,
\* polls (every votes entry, counter and is_active) and next_poll_id as they
\* are: a step that changes one of them is no such call.
C17_ErrorsLeaveState ==
    /\ [](/\ \A v \in Addresses, p \in PollIdArgs, i \in OptionIdxArgs :
                 cast_vote_result(v, p, i) \in
                     {Ok(Unit), Err("PollNotFound"), Err("PollInactive"),
                      Err("AlreadyVoted"), Err("InvalidOption")}
          /\ \A c \in Addresses, p \in PollIdArgs :
                 end_poll_result(c, p) \in
                     {Ok(Unit), Err("PollNotFound"), Err("Unauthorized")})
    /\ [][\/ contract' = contract
          \/ /\ \A v \in Addresses, p \in PollIdArgs, i \in OptionIdxArgs :
                    ~(cast_vote(v, p, i) /\ ~cast_vote_result(v, p, i).ok)
             /\ \A c \in Addresses, p \in PollIdArgs :
                    ~(end_poll(c, p) /\ ~end_poll_result(c, p).ok)]_vars

\* The only poll is active and holds one vote: the voter's next vote in it is
\* a duplicate, the other address's vote for the index past the options is
\* invalid, a vote in poll 2 finds no poll, and the address that is no admin
\* may not end the poll.
C17_Witness ==
    /\ DOMAIN polls = {1}
    /\ Poll(1).is_active
    /\ \E v, w \in Addresses :
           /\ v # w
           /\ Poll(1).votes = {<<v, 1>>}
           /\ cast_vote_result(v, 1, 0) = Err("AlreadyVoted")
           /\ cast_vote_result(w, 1, 2) = Err("InvalidOption")
           /\ cast_vote_result(w, 2, 0) = Err("PollNotFound")
    /\ \E c \in Addresses :
           /\ end_poll_result(c, 1) = Err("Unauthorized")
           /\ end_poll_result(c, 2) = Err("PollNotFound")

\* C18: a poll whose is_active is false has, after every step, is_active
\* false still and the votes, the vote_counts and the get_poll_results it had
\* before the step.
C18_ResultsFinal ==
    [][\A p \in DOMAIN polls :
           ~Poll(p).is_active =>
               /\ ~polls'[p].is_active
               /\ polls'[p].votes = Poll(p).votes
               /\ polls'[p].vote_counts = Poll(p).vote_counts
               /\ get_poll_results(p)' = get_poll_results(p)]_vars

\* A poll was ended with one vote, for the second option; the address that
\* has not voted in it is refused there, and has voted in the other poll.
C18_Witness ==
    \E p \in end_ok, q \in DOMAIN polls, v \in Addresses :
        /\ p # q
        /\ ~Poll(p).is_active
        /\ get_poll_results(p) = Ok(<< <<"Rust", 0>>, <<"Go", 1>> >>)
        /\ ~ContainsKey(Poll(p).votes, v)
        /\ cast_vote_result(v, p, 0) = Err("PollInactive")
        /\ ContainsKey(Poll(q).votes, v)
        /\ Len(admins) = 2

\* C19: the creator of every poll is in admins, so that on an existing poll
\* the callers end_poll accepts are the admins, and end_poll returns
\* Unauthorized iff the caller is not in admins.
C19_CreatorIsAdmin ==
    \A p \in DOMAIN polls :
        /\ Contains(admins, Poll(p).creator)
        /\ \A c \in Addresses :
               /\ MayEnd(c, p) <=> Contains(admins, c)
               /\ end_poll_result(c, p) = Err("Unauthorized") <=> ~Contains(admins, c)

\* Two polls of the bootstrap admin, one of them ended, and two entries in
\* admins: the address that is not among them is refused on both polls.
C19_Witness ==
    /\ DOMAIN polls = {1, 2}
    /\ Len(admins) = 2
    /\ end_ok = {1}
    /\ Poll(2).is_active
    /\ \E c \in Addresses :
           /\ ~Contains(admins, c)
           /\ end_poll_result(c, 1) = Err("Unauthorized")
           /\ end_poll_result(c, 2) = Err("Unauthorized")
           /\ ContainsKey(Poll(2).votes, c)

\* C20: in every poll vote_counts is as long as options and every index in
\* votes is below that length; a cast_vote that returns Ok has an index for
\* which vote_counts has a counter; a poll without options has no votes, and
\* while it is active every cast_vote on it returns InvalidOption.
C20_IndexesInRange ==
    /\ \A p \in DOMAIN polls :
           /\ Len(Poll(p).vote_counts) = Len(Poll(p).options)
           /\ \A e \in Poll(p).votes : e[2] \in 0..(Len(Poll(p).options) - 1)
           /\ Poll(p).options = << >> =>
                  /\ Poll(p).votes = {}
                  /\ Poll(p).is_active =>
                         \A v \in Addresses, i \in OptionIdxArgs :
                             cast_vote_result(v, p, i) = Err("InvalidOption")
    /\ \A v \in Addresses, p \in PollIdArgs, i \in OptionIdxArgs :
           cast_vote_result(v, p, i) = Ok(Unit) =>
               (i + 1) \in DOMAIN Poll(p).vote_counts

\* An active poll without options next to a poll in which both options have
\* a vote: on the first, index 0 is refused for both addresses.
C20_Witness ==
    \E p, q \in DOMAIN polls :
        /\ Poll(p).options = << >>
        /\ Poll(p).is_active
        /\ Poll(p).votes = {}
        /\ \A v \in Addresses : cast_vote_result(v, p, 0) = Err("InvalidOption")
        /\ {e[2] : e \in Poll(q).votes} = {0, 1}
        /\ Poll(q).vote_counts = <<1, 1>>
====
